---- MODULE Spec2Model ----
(***************************************************************************)
(* Model of the zhang-calibration sources: the analytic Jacobian engine    *)
(* (jacobian.py), the synthetic checkerboard and virtual camera           *)
(* (dataset.py, virtualcamera.py), the debug raster drawing (visualize.py) *)
(* and the damped least-squares loop described for the solver.            *)
(*                                                                         *)
(* Floating-point values that the claims never inspect are kept as opaque  *)
(* tagged values; every index, slice, shape and comparison is computed as  *)
(* the Python/numpy code computes it.                                      *)
(***************************************************************************)
EXTENDS Integers, Sequences, FiniteSets, TLC

VARIABLES
    jac,       \* the caller's ProjectionJacobian object
    ctor,      \* the last ProjectionJacobian(...) call and its outcome
    call,      \* the last compute(...) call and its outcome
    board,     \* the Checkerboard object
    returned,  \* what getCornerPositions returned, call by call
    meas,      \* the last measureDetectedPoints(...) call and its outcome
    image,     \* the raster image being drawn on
    draw,      \* the last drawCross(...) call and its outcome
    solver     \* the calibration solver's loop state

jacVars == <<jac, ctor, call>>
dataVars == <<board, returned, meas>>
drawVars == <<image, draw>>
vars == <<jac, ctor, call, board, returned, meas, image, draw, solver>>

\* ------------------------------------------------------------------ bounds
MaxViews == 2
MaxPoints == 2
\* how far len(P) may exceed the longest valid layout
MaxExtraParams == 2
\* checkerboard sizes, spacings, camera focal lengths and board shifts tried
MaxCorners == 3
MaxSpacing == 2
MaxFocal == 2
MaxShift == 1
\* getCornerPositions calls followed on one board
MaxGets == 2
\* image sides and cross lengths tried
MaxImageSize == 4
MaxLength == 3
\* the solver: values of the sum of squares, iteration count, cap on the
\* exponent of lambda, and the tolerance TolNum/TolDen on the relative decrease
MaxSumSquares == 5
MaxIterations == 5
LambdaCap == 2
TolNum == 1
TolDen == 4

\* ----------------------------------------------------------------- helpers
Min(a, b) == IF a < b THEN a ELSE b
Max(a, b) == IF a > b THEN a ELSE b

\* Python's normalisation of a slice bound against a sequence of length n
PyBound(idx, n) == IF idx < 0 THEN Max(idx + n, 0) ELSE Min(idx, n)

\* Python's s[start:stop] on a sequence (0-based, negative bounds allowed)
PySlice(s, start, stop) ==
    LET lo == PyBound(start, Len(s))
        hi == PyBound(stop, Len(s))
    IN  IF hi <= lo THEN <<>> ELSE SubSeq(s, lo + 1, hi)

RECURSIVE SumSeq(_)
SumSeq(s) == IF s = <<>> THEN 0 ELSE Head(s) + SumSeq(Tail(s))

\* ------------------------------------------------- jacobian.py: the symbols
numExtrinsicParamsPerView == 6

getIntrinsicRadTanSymbols ==
    <<"alpha", "beta", "gamma", "uc", "vc", "k1", "k2", "p1", "p2", "k3">>

getExtrinsicSymbols == <<"rho_x", "rho_y", "rho_z", "tx", "ty", "tz">>

getModelPointSymbols == <<"X", "Y", "Z">>

getAllOrderedSymbols ==
    getIntrinsicRadTanSymbols \o getExtrinsicSymbols \o getModelPointSymbols

\* sympy.lambdify(orderedSymbols, expression): a callable that takes exactly
\* len(orderedSymbols) positional arguments and yields one (u, v) pair of
\* results per column of the expression matrix.
createLambdaFunction(blockName, derivativeSymbols, orderedSymbols) ==
    [name |-> blockName, cols |-> derivativeSymbols, arity |-> Len(orderedSymbols)]

NoFunction == [name |-> "", cols |-> <<>>, arity |-> 0]

\* ----------------------------------------- ProjectionJacobian.__init__
DistortionModels == {"RadialTangential", "FishEye", "Unknown"}

\* the object before __init__ has assigned anything
NoEngine ==
    [constructed |-> FALSE,
     intrinsicSymbols |-> <<>>,
     orderedSymbols |-> <<>>,
     extrinsicSymbols |-> <<>>,
     intrinsicJacobianBlockFunction |-> NoFunction,
     extrinsicJacobianBlockFunctions |-> NoFunction]

\* lines 27-34, reached only when the model check of lines 18-25 did not raise
buildBlocks ==
    [raised |-> "none",
     built |-> <<"_uvExpr", "_intrinsicJacobianBlockExpr",
                 "_intrinsicJacobianBlockFunction",
                 "_extrinsicJacobianBlockExpr",
                 "_extrinsicJacobianBlockFunctions">>,
     self |-> [constructed |-> TRUE,
               intrinsicSymbols |-> getIntrinsicRadTanSymbols,
               orderedSymbols |-> getAllOrderedSymbols,
               extrinsicSymbols |-> getExtrinsicSymbols,
               intrinsicJacobianBlockFunction |->
                   createLambdaFunction("intrinsic", getIntrinsicRadTanSymbols,
                                        getAllOrderedSymbols),
               extrinsicJacobianBlockFunctions |->
                   createLambdaFunction("extrinsic", getExtrinsicSymbols,
                                        getAllOrderedSymbols)]]

\* a plausible slip: the unsupported branches fall through to the supported one
initFallsThrough(distortionModel) == buildBlocks

\* __init__: the result of the call (what was raised, which expressions were
\* built before it returned or raised, and the object the caller receives)
init(distortionModel) ==
    IF distortionModel = "RadialTangential"
    THEN buildBlocks
    ELSE [raised |-> "NotImplementedError", built |-> <<>>, self |-> NoEngine]

\* ------------------------------------------------ _computeJacobianBlock
\* p + self._epsilon on an opaque value
plusEpsilon(p) == <<"eps", p>>

\* blockValues[row, i]: rows 0,2,4,.. take the u result of point row/2,
\* rows 1,3,5,.. the v result (blockValues[::2, i], blockValues[1::2, i])
blockRowComponent(row) == IF row % 2 = 0 THEN "u" ELSE "v"

blockRowPoint(row) == row \div 2

computeJacobianBlock(functionBlock, intrinsicValues, extrinsicValues, modelPoints) ==
    LET P == [k \in 1..(Len(intrinsicValues) + Len(extrinsicValues)) |->
                 plusEpsilon((intrinsicValues \o extrinsicValues)[k])]
        N == Len(modelPoints)
        T == Len(functionBlock.cols)
    IN  IF Len(P) + 3 # functionBlock.arity
        THEN [raised |-> "TypeError", rows |-> 0, cols |-> 0, at |-> <<>>]
        ELSE [raised |-> "none", rows |-> 2 * N, cols |-> T,
              at |-> [rc \in (0..(2 * N - 1)) \X (0..(T - 1)) |->
                        [fn |-> functionBlock.name,
                         wrt |-> functionBlock.cols[rc[2] + 1],
                         comp |-> blockRowComponent(rc[1]),
                         args |-> P,
                         point |-> plusEpsilon(modelPoints[blockRowPoint(rc[1]) + 1])]]]

\* ------------------------------------------------------------- compute
Zero == [fn |-> "zero", wrt |-> "", comp |-> "", args |-> <<>>, point |-> <<>>]

\* np.zeros((rows, cols))
zeros(rows, cols) ==
    [rows |-> rows, cols |-> cols,
     at |-> [rc \in (0..(rows - 1)) \X (0..(cols - 1)) |-> Zero]]

\* J[r0:r1, c0:c1] = block (numpy clips the slice to the array and refuses a
\* block of another shape)
assignSlice(J, r0, r1, c0, c1, block) ==
    LET rlo == Min(r0, J.rows)
        rhi == Max(rlo, Min(r1, J.rows))
        clo == Min(c0, J.cols)
        chi == Max(clo, Min(c1, J.cols))
    IN  IF (rhi - rlo # block.rows) \/ (chi - clo # block.cols)
        THEN [raised |-> "ValueError", J |-> J]
        ELSE [raised |-> "none",
              J |-> [J EXCEPT !.at =
                       [rc \in DOMAIN J.at |->
                          IF /\ rlo <= rc[1] /\ rc[1] < rhi
                             /\ clo <= rc[2] /\ rc[2] < chi
                          THEN block.at[<<rc[1] - rlo, rc[2] - clo>>]
                          ELSE J.at[rc]]]]

\* a plausible slip: the view count left out of the column count
numColumnsOneView(L, M) == L + numExtrinsicParamsPerView

\* K = L + self._numExtrinsicParamsPerView * M
numColumns(L, M) == L + numExtrinsicParamsPerView * M

\* MN = sum([modelPoints.shape[0] for modelPoints in allModelPoints])
totalPoints(allModelPoints) ==
    SumSeq([i \in 1..Len(allModelPoints) |-> Len(allModelPoints[i])])

\* a plausible slip: every view written into the first extrinsic window
colIndexJFirstWindow(L, i) == L

\* colIndexJ = L + i * self._numExtrinsicParamsPerView
colIndexJ(L, i) == L + i * numExtrinsicParamsPerView

\* a plausible slip: one row per point instead of two
nextRowIndexJOneRow(rowIndexJ, N) == rowIndexJ + N

\* rowIndexJ += 2*N
nextRowIndexJ(rowIndexJ, N) == rowIndexJ + 2 * N

RECURSIVE viewLoop(_, _, _, _, _, _)
viewLoop(self, P, allModelPoints, i, rowIndexJ, J) ==
    IF i >= Len(allModelPoints)
    THEN [raised |-> "none", J |-> J]
    ELSE
    LET M == Len(allModelPoints)
        L == Len(self.intrinsicSymbols)
        intrinsicValues == PySlice(P, 0, -M * numExtrinsicParamsPerView)
        modelPoints == allModelPoints[i + 1]
        intrinsicStartCol == L + i * numExtrinsicParamsPerView
        intrinsicEndCol == intrinsicStartCol + numExtrinsicParamsPerView
        extrinsicValues == PySlice(P, intrinsicStartCol, intrinsicEndCol)
        N == Len(modelPoints)
        intrinsicBlock == computeJacobianBlock(self.intrinsicJacobianBlockFunction,
                              intrinsicValues, extrinsicValues, modelPoints)
        extrinsicBlock == computeJacobianBlock(self.extrinsicJacobianBlockFunctions,
                              intrinsicValues, extrinsicValues, modelPoints)
        J1 == assignSlice(J, rowIndexJ, rowIndexJ + 2 * N, 0, L, intrinsicBlock)
        J2 == assignSlice(J1.J, rowIndexJ, rowIndexJ + 2 * N, colIndexJ(L, i),
                          colIndexJ(L, i) + numExtrinsicParamsPerView, extrinsicBlock)
    IN  IF intrinsicBlock.raised # "none" THEN [raised |-> intrinsicBlock.raised, J |-> J]
        ELSE IF extrinsicBlock.raised # "none" THEN [raised |-> extrinsicBlock.raised, J |-> J]
        ELSE IF J1.raised # "none" THEN [raised |-> J1.raised, J |-> J]
        ELSE IF J2.raised # "none" THEN [raised |-> J2.raised, J |-> J]
        ELSE viewLoop(self, P, allModelPoints, i + 1, nextRowIndexJ(rowIndexJ, N), J2.J)

NoJacobian == [rows |-> 0, cols |-> 0, at |-> <<>>]

\* compute(P, allModelPoints): what is raised, and the matrix returned
compute(self, P, allModelPoints) ==
    LET M == Len(allModelPoints)
        MN == totalPoints(allModelPoints)
        L == Len(self.intrinsicSymbols)
        K == numColumns(L, M)
        r == viewLoop(self, P, allModelPoints, 0, 0, zeros(2 * MN, K))
    IN  IF r.raised # "none"
        THEN [raised |-> r.raised, returned |-> FALSE, J |-> NoJacobian]
        ELSE [raised |-> "none", returned |-> TRUE, J |-> r.J]

\* ------------------------------------------------- the inputs of compute
\* parameter k of the vector, an opaque value
paramVector(lenP) == [k \in 1..lenP |-> <<"P", k - 1>>]

\* view i (0-based) with N points, each an opaque (X, Y, Z)
viewPoints(i, N) == [n \in 1..N |-> <<"pt", i, n - 1>>]

allViews(Ns) == [i \in 1..Len(Ns) |-> viewPoints(i - 1, Ns[i])]

MaxLenP == Len(getIntrinsicRadTanSymbols) + numExtrinsicParamsPerView * MaxViews
               + MaxExtraParams

NoCall == [made |-> FALSE, lenP |-> 0, Ns |-> <<>>, raised |-> "none",
           returned |-> FALSE, J |-> NoJacobian]

NoCtor == [made |-> FALSE, model |-> "", raised |-> "none", built |-> <<>>]

\* ------------------------------------------------------------- actions
\* jac = ProjectionJacobian(distortionModel): the caller's name is bound only
\* when the constructor returns
Construct ==
    \E distortionModel \in DistortionModels :
        LET r == init(distortionModel)
        IN  /\ ctor' = [made |-> TRUE, model |-> distortionModel,
                        raised |-> r.raised, built |-> r.built]
            /\ jac' = r.self
            /\ call' = NoCall
            /\ UNCHANGED <<dataVars, drawVars, solver>>

\* jac.compute(P, allModelPoints); compute leaves the engine as it found it,
\* so one call per constructed engine shows every call
Compute ==
    /\ jac.constructed
    /\ ~call.made
    /\ \E M \in 0..MaxViews :
       \E Ns \in [1..M -> 0..MaxPoints] :
       \E lenP \in 0..MaxLenP :
          LET r == compute(jac, paramVector(lenP), allViews(Ns))
          IN  call' = [made |-> TRUE, lenP |-> lenP, Ns |-> Ns,
                       raised |-> r.raised, returned |-> r.returned, J |-> r.J]
    /\ UNCHANGED <<jac, ctor, dataVars, drawVars, solver>>

JacNext == Construct \/ Compute

\* ======================================================================
\* dataset.py: Checkerboard
\* ======================================================================
\* a plausible slip: x and y exchanged
cornerPositionSwapped(i, j, spacing) == <<j * spacing, i * spacing, 0>>

\* x = i * spacing; y = j * spacing; (x, y, 0)
cornerPosition(i, j, spacing) == <<i * spacing, j * spacing, 0>>

\* for i in range(numCornersWidth): cornerPositions.append(...)
RECURSIVE widthLoop(_, _, _, _, _)
widthLoop(i, j, numCornersWidth, spacing, cornerPositions) ==
    IF i >= numCornersWidth THEN cornerPositions
    ELSE widthLoop(i + 1, j, numCornersWidth, spacing,
                   Append(cornerPositions, cornerPosition(i, j, spacing)))

\* for j in range(numCornersHeight): ...
RECURSIVE heightLoop(_, _, _, _, _)
heightLoop(j, numCornersWidth, numCornersHeight, spacing, cornerPositions) ==
    IF j >= numCornersHeight THEN cornerPositions
    ELSE heightLoop(j + 1, numCornersWidth, numCornersHeight, spacing,
                    widthLoop(0, j, numCornersWidth, spacing, cornerPositions))

\* the scalars of np.array(listOfTuples), row after row
RECURSIVE flatten(_)
flatten(tuples) == IF tuples = <<>> THEN <<>> ELSE Head(tuples) \o flatten(Tail(tuples))

\* .reshape(-1, 3): as many rows of 3 as the scalars fill
reshape3(flat) ==
    [cols |-> 3,
     rows |-> [r \in 1..(Len(flat) \div 3) |->
                 <<flat[3 * r - 2], flat[3 * r - 1], flat[3 * r]>>]]

createCornerPositions(numCornersWidth, numCornersHeight, spacing) ==
    reshape3(flatten(heightLoop(0, numCornersWidth, numCornersHeight, spacing, <<>>)))

NoArray == [cols |-> 0, rows |-> <<>>]

NoBoard == [made |-> FALSE, numCornersWidth |-> 0, numCornersHeight |-> 0,
            spacing |-> 0, cornerPositions |-> NoArray]

\* Checkerboard.__init__
newCheckerboard(numCornersWidth, numCornersHeight, spacing) ==
    [made |-> TRUE, numCornersWidth |-> numCornersWidth,
     numCornersHeight |-> numCornersHeight, spacing |-> spacing,
     cornerPositions |-> createCornerPositions(numCornersWidth, numCornersHeight, spacing)]

\* Checkerboard.getCornerPositions
getCornerPositions(self) == self.cornerPositions

\* ======================================================================
\* virtualcamera.py: VirtualCamera
\* ======================================================================
\* A float of the projection: a finite rational num/den (den # 0), or one of
\* the IEEE values a division by zero produces.
Fin(num, den) == [k |-> "fin", num |-> num, den |-> den]
PInf == [k |-> "pinf", num |-> 0, den |-> 0]
NInf == [k |-> "ninf", num |-> 0, den |-> 0]
NaN == [k |-> "nan", num |-> 0, den |-> 0]

\* a / b on integer-valued floats
fdiv(a, b) ==
    IF b # 0 THEN Fin(a, b)
    ELSE IF a > 0 THEN PInf ELSE IF a < 0 THEN NInf ELSE NaN

\* c * x for an integer-valued float c
fscale(c, x) ==
    CASE x.k = "fin" -> Fin(c * x.num, x.den)
      [] x.k = "nan" -> NaN
      [] OTHER -> IF c = 0 THEN NaN
                  ELSE IF (c > 0) = (x.k = "pinf") THEN PInf ELSE NInf

\* x + y
fadd(x, y) ==
    CASE x.k = "nan" \/ y.k = "nan" -> NaN
      [] x.k = "fin" /\ y.k = "fin" ->
             IF x.den = y.den THEN Fin(x.num + y.num, x.den)
             ELSE Fin(x.num * y.den + y.num * x.den, x.den * y.den)
      [] x.k = "fin" -> y
      [] y.k = "fin" -> x
      [] OTHER -> IF x.k = y.k THEN x ELSE NaN

\* x > c and x < c for an integer c, as floats compare
fgt(x, c) ==
    CASE x.k = "fin" -> IF x.den > 0 THEN x.num > c * x.den ELSE x.num < c * x.den
      [] x.k = "pinf" -> TRUE
      [] OTHER -> FALSE

flt(x, c) ==
    CASE x.k = "fin" -> IF x.den > 0 THEN x.num < c * x.den ELSE x.num > c * x.den
      [] x.k = "ninf" -> TRUE
      [] OTHER -> FALSE

\* camera_M_board @ homog(point): rotation rows R and translation t
transformPoint(pose, p) ==
    [a \in 1..3 |-> pose.R[a][1] * p[1] + pose.R[a][2] * p[2] + pose.R[a][3] * p[3]
                      + pose.t[a]]

\* mathutils.project(A, eye(4), pointsInCamera) on one point: normalise by the
\* depth, then apply the intrinsic matrix (alpha gamma uc; 0 beta vc; 0 0 1)
project(A, cP) ==
    LET x == fdiv(cP[1], cP[3])
        y == fdiv(cP[2], cP[3])
        one == Fin(1, 1)
    IN  <<fadd(fadd(fscale(A.alpha, x), fscale(A.gamma, y)), fscale(A.uc, one)),
          fadd(fscale(A.beta, y), fscale(A.vc, one))>>

\* a plausible slip: the image border counted as inside
pointInImageInclusive(uv, imageWidth, imageHeight) ==
    /\ ~flt(uv[1], 0) /\ uv[1].k = "fin" /\ ~fgt(uv[1], imageWidth)
    /\ ~flt(uv[2], 0) /\ uv[2].k = "fin" /\ ~fgt(uv[2], imageHeight)

\* (u > 0) & (u < imageWidth) & (v > 0) & (v < imageHeight)
pointInImage(uv, imageWidth, imageHeight) ==
    /\ fgt(uv[1], 0) /\ flt(uv[1], imageWidth)
    /\ fgt(uv[2], 0) /\ flt(uv[2], imageHeight)

\* array[mask]: the rows whose mask entry is True, in order
RECURSIVE maskSelect(_, _)
maskSelect(rows, mask) ==
    IF rows = <<>> THEN <<>>
    ELSE IF Head(mask)
         THEN <<Head(rows)>> \o maskSelect(Tail(rows), Tail(mask))
         ELSE maskSelect(Tail(rows), Tail(mask))

\* VirtualCamera.measureDetectedPoints
measureDetectedPoints(self, checkerboard, boardPoseInCamera) ==
    LET cornerPointsInBoard == getCornerPositions(checkerboard)
        n == Len(cornerPointsInBoard.rows)
        cornerPointsInCamera ==
            [k \in 1..n |-> transformPoint(boardPoseInCamera, cornerPointsInBoard.rows[k])]
        measuredPoints ==
            [k \in 1..n |-> project(self.intrinsicMatrix, cornerPointsInCamera[k])]
        pointInImageSlice ==
            [k \in 1..n |-> pointInImage(measuredPoints[k], self.imageWidth, self.imageHeight)]
    IN  [sensor |-> [cols |-> 2, rows |-> maskSelect(measuredPoints, pointInImageSlice)],
         model |-> [cols |-> cornerPointsInBoard.cols,
                    rows |-> maskSelect(cornerPointsInBoard.rows, pointInImageSlice)]]

\* ------------------------------------------------ the inputs of the camera
Cameras ==
    {[intrinsicMatrix |-> [alpha |-> f, beta |-> f, gamma |-> g, uc |-> 2, vc |-> 1],
      imageWidth |-> 4, imageHeight |-> 3] : f \in 1..MaxFocal, g \in {0, 1}}

\* rotations with integer entries: none, half a turn about z, a quarter turn about y
Rotations ==
    {<< <<1, 0, 0>>, <<0, 1, 0>>, <<0, 0, 1>> >>,
     << <<-1, 0, 0>>, <<0, -1, 0>>, <<0, 0, 1>> >>,
     << <<0, 0, 1>>, <<0, 1, 0>>, <<-1, 0, 0>> >>}

Poses ==
    {[R |-> R, t |-> <<tx, ty, tz>>] :
        R \in Rotations, tx \in (-MaxShift)..MaxShift, ty \in (-MaxShift)..MaxShift,
        tz \in 0..(MaxShift + 1)}

NoCamera ==
    [intrinsicMatrix |-> [alpha |-> 0, beta |-> 0, gamma |-> 0, uc |-> 0, vc |-> 0],
     imageWidth |-> 0, imageHeight |-> 0]

NoPose == [R |-> <<>>, t |-> <<>>]

NoMeas == [made |-> FALSE, camera |-> NoCamera, pose |-> NoPose,
           sensor |-> NoArray, model |-> NoArray]

\* ------------------------------------------------------------- actions
\* checkerboard = Checkerboard(numCornersWidth, numCornersHeight, spacing);
\* a behaviour follows one board
CreateCheckerboard ==
    /\ ~board.made
    /\ UNCHANGED <<jacVars, drawVars, solver>>
    /\ \E w \in 0..MaxCorners, h \in 0..MaxCorners, s \in (-1)..MaxSpacing :
          board' = newCheckerboard(w, h, s)
    /\ returned' = <<>>
    /\ meas' = NoMeas

\* checkerboard.getCornerPositions(); it and the measurement only read the
\* board, so each is followed on its own
GetCornerPositions ==
    /\ board.made
    /\ ~meas.made
    /\ Len(returned) < MaxGets
    /\ returned' = Append(returned, getCornerPositions(board))
    /\ UNCHANGED <<board, meas, jacVars, drawVars, solver>>

\* VirtualCamera(...).measureDetectedPoints(checkerboard, boardPoseInCamera)
MeasureDetectedPoints ==
    /\ board.made
    /\ ~meas.made
    /\ returned = <<>>
    /\ \E camera \in Cameras, pose \in Poses :
          LET r == measureDetectedPoints(camera, board, pose)
          IN  meas' = [made |-> TRUE, camera |-> camera, pose |-> pose,
                       sensor |-> r.sensor, model |-> r.model]
    /\ UNCHANGED <<board, returned, jacVars, drawVars, solver>>

DataNext == CreateCheckerboard \/ GetCornerPositions \/ MeasureDetectedPoints

\* ======================================================================
\* visualize.py
\* ======================================================================
\* np.zeros((h, w, 3), dtype=np.uint8): every pixel (0, 0, 0)
createBlankImage(w, h) ==
    [made |-> TRUE, h |-> h, w |-> w,
     px |-> [rc \in (0..(h - 1)) \X (0..(w - 1)) |-> "black"]]

NoImage == [made |-> FALSE, h |-> 0, w |-> 0, px |-> <<>>]

\* np.rint of a coordinate given in halves (a/2): to the nearest integer, a tie
\* to the even one
rint(a) ==
    IF a % 2 = 0 THEN a \div 2
    ELSE LET f == (a - 1) \div 2 IN IF f % 2 = 0 THEN f ELSE f + 1

\* np.clip(x, lo, hi)
clip(x, lo, hi) == IF x < lo THEN lo ELSE IF x > hi THEN hi ELSE x

\* np.clip(np.arange(c - length//2, c + length//2 + 1), 0, size), as a set
clippedRange(c, length, size) ==
    {clip(x, 0, size) : x \in (c - length \div 2)..(c + length \div 2)}

\* image[rows, cols] = color: numpy checks every index first and raises
\* IndexError, writing nothing, when one is outside the axis
assignPixels(img, indices, color) ==
    IF \E rc \in indices : ~(rc[1] < img.h /\ rc[1] >= -img.h
                               /\ rc[2] < img.w /\ rc[2] >= -img.w)
    THEN [raised |-> "IndexError", image |-> img]
    ELSE [raised |-> "none",
          image |-> [img EXCEPT !.px =
                      [rc \in DOMAIN img.px |->
                         IF \E ix \in indices : /\ ix[1] % img.h = rc[1]
                                                  /\ ix[2] % img.w = rc[2]
                         THEN color ELSE img.px[rc]]]]

\* drawCross(image, point, length, color): what is raised, the image
\* afterwards, and every index the two assignments used
drawCross(img, point, length, color) ==
    LET h == img.h
        w == img.w
        u == rint(point[1])
        v == rint(point[2])
        rowRange == clippedRange(v, length, h)
        colRange == clippedRange(u, length, w)
        rowIndices == {<<v, c>> : c \in colRange}
        colIndices == {<<r, u>> : r \in rowRange}
        first == assignPixels(img, rowIndices, color)
        second == assignPixels(first.image, colIndices, color)
    IN  IF ~(0 < u /\ u < w /\ 0 < v /\ v < h)
        THEN [raised |-> "none", image |-> img, indexed |-> {}]
        ELSE IF first.raised # "none"
        THEN [raised |-> first.raised, image |-> first.image, indexed |-> rowIndices]
        ELSE [raised |-> second.raised, image |-> second.image,
              indexed |-> rowIndices \cup colIndices]

NoDraw == [made |-> FALSE, point |-> <<0, 0>>, length |-> 0, raised |-> "none",
           indexed |-> {}, before |-> NoImage]

\* ------------------------------------------------------------- actions
\* image = createBlankImage(w, h); a behaviour follows one image
CreateBlankImage ==
    /\ ~image.made
    /\ \E w \in 0..MaxImageSize, h \in 0..MaxImageSize : image' = createBlankImage(w, h)
    /\ draw' = NoDraw
    /\ UNCHANGED <<jacVars, dataVars, solver>>

\* drawCross(image, point, length, teal), the point given in halves of a pixel
DrawCross ==
    /\ image.made
    /\ ~draw.made
    /\ \E a \in (-1)..(2 * image.w + 1), b \in (-1)..(2 * image.h + 1),
          length \in 0..MaxLength :
          LET r == drawCross(image, <<a, b>>, length, "teal")
          IN  /\ image' = r.image
              /\ draw' = [made |-> TRUE, point |-> <<a, b>>, length |-> length,
                           raised |-> r.raised, indexed |-> r.indexed,
                           before |-> image]
    /\ UNCHANGED <<jacVars, dataVars, solver>>

DrawNext == CreateBlankImage \/ DrawCross

\* ======================================================================
\* the calibration solver's damped iteration (section 4.4 of the design)
\* ======================================================================
NoSolver == [status |-> "idle", S |-> 0, P |-> 0, lambda |-> 0, iter |-> 0,
             tried |-> 0, accepted |-> 0, rejected |-> 0]

\* a plausible slip: an update that does not improve is accepted too
acceptsUpdateNotWorse(Snew, S) == Snew <= S

\* step 4: "If S' < S, accept"
acceptsUpdate(Snew, S) == Snew < S

\* step 5: the relative decrease (S - S')/S is below the tolerance TolNum/TolDen
belowTolerance(Snew, S) == (S - Snew) * TolDen < TolNum * S

\* one pass of steps 3 to 5 with the tentative update's sum of squares Snew;
\* lambda is kept as its exponent (lambda = 10^exponent), P as the number of
\* the estimate
solverIteration(s, Snew) ==
    LET iter == s.iter + 1
    IN  IF acceptsUpdate(Snew, s.S)
        THEN [s EXCEPT !.P = s.P + 1, !.S = Snew, !.lambda = s.lambda - 1,
                       !.iter = iter, !.tried = Snew, !.accepted = s.accepted + 1,
                       !.status = IF belowTolerance(Snew, s.S) THEN "converged"
                                  ELSE IF iter >= MaxIterations THEN "ConvergenceError"
                                  ELSE "running"]
        ELSE [s EXCEPT !.lambda = s.lambda + 1, !.iter = iter, !.tried = Snew,
                       !.rejected = s.rejected + 1,
                       !.status = IF s.lambda + 1 > LambdaCap THEN "ConvergenceError"
                                  ELSE IF iter >= MaxIterations THEN "ConvergenceError"
                                  ELSE "running"]

\* ------------------------------------------------------------- actions
\* the solver is started on an initial guess whose sum of squares is S0
SolverStart ==
    /\ solver.status = "idle"
    /\ \E S0 \in 0..MaxSumSquares :
          solver' = [NoSolver EXCEPT !.status = "running", !.S = S0, !.tried = S0]
    /\ UNCHANGED <<jacVars, dataVars, drawVars>>

SolverStep ==
    /\ solver.status = "running"
    /\ \E Snew \in 0..MaxSumSquares : solver' = solverIteration(solver, Snew)
    /\ UNCHANGED <<jacVars, dataVars, drawVars>>

SolverNext == SolverStart \/ SolverStep

\* ======================================================================
\* specifications, one per component
\* ======================================================================
\* nothing constructed, nothing called
Init ==
    /\ jac = NoEngine
    /\ ctor = NoCtor
    /\ call = NoCall
    /\ board = NoBoard
    /\ returned = <<>>
    /\ meas = NoMeas
    /\ image = NoImage
    /\ draw = NoDraw
    /\ solver = NoSolver

\* the Jacobian engine
Spec == Init /\ [][JacNext]_vars

\* the checkerboard and the virtual camera
SpecDataset == Init /\ [][DataNext]_vars

\* the raster drawing
SpecDraw == Init /\ [][DrawNext]_vars

\* the solver loop, which runs on until it stops itself
SpecSolver == Init /\ [][SolverNext]_vars /\ WF_vars(SolverStep)

\* ---------------------------------------------------- claims on compute
L == Len(getIntrinsicRadTanSymbols)

CallM == Len(call.Ns)

ValidLength == call.lenP = L + 6 * CallM

\* first row of view i (0-based) when rows are grouped by view in input order
RowStart(Ns, i) == 2 * SumSeq(SubSeq(Ns, 1, i))

ViewRows(Ns, i) == RowStart(Ns, i)..(RowStart(Ns, i + 1) - 1)

Window(j) == (L + 6 * j)..(L + 6 * j + 5)

\* C1: for M views with N_i points and a parameter vector of length L + 6M
\* (L = 10), compute returns a matrix of exactly 2 * (N_0 + ... + N_{M-1}) rows
\* and L + 6M columns.
C1_Shape ==
    (call.made /\ ValidLength) =>
        /\ L = 10
        /\ call.returned
        /\ call.J.rows = 2 * SumSeq(call.Ns)
        /\ call.J.cols = L + 6 * CallM
        /\ DOMAIN call.J.at = (0..(call.J.rows - 1)) \X (0..(call.J.cols - 1))

C1_Witness ==
    /\ call.made /\ ValidLength /\ call.returned
    /\ CallM = 2 /\ call.Ns[1] # call.Ns[2] /\ call.Ns[1] > 0 /\ call.Ns[2] > 0

\* C2: block-sparsity. For views i # j every entry in view i's rows and view
\* j's extrinsic window is exactly zero; for view i's rows only columns [0, L)
\* and the window [L+6i, L+6i+6) are written.
C2_BlockSparsity ==
    (call.made /\ call.returned) =>
        \A i \in 0..(CallM - 1) : \A r \in ViewRows(call.Ns, i) :
            /\ \A j \in 0..(CallM - 1) : \A c \in Window(j) :
                   i # j => call.J.at[<<r, c>>] = Zero
            /\ \A c \in 0..(call.J.cols - 1) :
                   call.J.at[<<r, c>>] # Zero => (c < L \/ c \in Window(i))

C2_Witness ==
    /\ call.made /\ call.returned /\ CallM = 2
    /\ call.Ns[1] > 0 /\ call.Ns[2] > 0
    /\ call.J.at[<<RowStart(call.Ns, 1), L + 6>>] # Zero
    /\ call.J.at[<<RowStart(call.Ns, 1), L>>] = Zero

\* C3: compute fails with DimensionError whenever len(P) # L + 6M; it never
\* returns a Jacobian for a parameter vector that does not match the layout.
C3_LengthMismatchRaisesDimensionError ==
    (call.made /\ ~ValidLength) =>
        (call.raised = "DimensionError" /\ ~call.returned)

\* C4: compute with zero views, or with a view of zero points, raises
\* DimensionError; it never returns an empty or wrong-shaped Jacobian.
C4_EmptyInputRaisesDimensionError ==
    (call.made /\ (CallM = 0 \/ \E i \in 1..CallM : call.Ns[i] = 0)) =>
        (call.raised = "DimensionError" /\ ~call.returned)

\* C9: row ordering. View i's rows are the contiguous range
\* [2*(N_0+..+N_{i-1}), 2*(N_0+..+N_i)), the ranges cover every row, and in a
\* view point n's u-derivative row is at offset 2n, its v-derivative row at 2n+1.
C9_RowOrdering ==
    (call.made /\ call.returned) =>
        /\ RowStart(call.Ns, CallM) = call.J.rows
        /\ \A i \in 0..(CallM - 1) : \A n \in 0..(call.Ns[i + 1] - 1) :
           \A c \in (0..(L - 1)) \cup Window(i) :
              LET uRow == call.J.at[<<RowStart(call.Ns, i) + 2 * n, c>>]
                  vRow == call.J.at[<<RowStart(call.Ns, i) + 2 * n + 1, c>>]
              IN  /\ uRow.comp = "u" /\ uRow.point = plusEpsilon(<<"pt", i, n>>)
                  /\ vRow.comp = "v" /\ vRow.point = plusEpsilon(<<"pt", i, n>>)

C9_Witness ==
    /\ call.made /\ call.returned /\ CallM = 2
    /\ call.Ns[1] = 2 /\ call.Ns[2] = 2
    /\ call.J.at[<<7, 0>>].comp = "v"
    /\ call.J.at[<<7, 0>>].point = plusEpsilon(<<"pt", 1, 1>>)

C7_CornerGrid ==
    \A c \in 1..Len(returned) :
        LET W == board.numCornersWidth
            H == board.numCornersHeight
            got == returned[c]
        IN  /\ Len(got.rows) = W * H
            /\ got.cols = 3
            /\ \A i \in 0..(W - 1) : \A j \in 0..(H - 1) :
                   got.rows[j * W + i + 1] = <<i * board.spacing, j * board.spacing, 0>>
            /\ got = returned[1]

C7_Witness ==
    /\ Len(returned) = 2
    /\ board.numCornersWidth = 3 /\ board.numCornersHeight = 2 /\ board.spacing = 2
    /\ returned[2].rows[5] = <<2, 2, 0>>

\* the rows of a are rows of b, in b's order
RECURSIVE IsSubsequence(_, _)
IsSubsequence(a, b) ==
    IF a = <<>> THEN TRUE
    ELSE IF b = <<>> THEN FALSE
    ELSE IF Head(a) = Head(b) THEN IsSubsequence(Tail(a), Tail(b))
    ELSE IsSubsequence(a, Tail(b))

\* 0 < q < bound for the float q, by exact rational comparison
StrictlyBetween(q, bound) ==
    /\ q.k = "fin"
    /\ \/ q.den > 0 /\ 0 < q.num /\ q.num < bound * q.den
       \/ q.den < 0 /\ 0 > q.num /\ q.num > bound * q.den

ProjectionOf(p) == project(meas.camera.intrinsicMatrix, transformPoint(meas.pose, p))

\* C6: measureDetectedPoints returns sensor points (2 columns) and model
\* points (3 columns) with the same number of rows, row k of the sensor points
\* being the projection of row k of the model points; the model points are a
\* subsequence of the board's corners in their order; a corner is kept exactly
\* when 0 < u < imageWidth and 0 < v < imageHeight.
C6_DetectedPoints ==
    meas.made =>
        LET corners == board.cornerPositions.rows
        IN  /\ Len(meas.sensor.rows) = Len(meas.model.rows)
            /\ meas.sensor.cols = 2
            /\ meas.model.cols = 3
            /\ \A k \in 1..Len(meas.model.rows) :
                   meas.sensor.rows[k] = ProjectionOf(meas.model.rows[k])
            /\ IsSubsequence(meas.model.rows, corners)
            /\ \A k \in 1..Len(corners) :
                   (\E m \in 1..Len(meas.model.rows) : meas.model.rows[m] = corners[k])
                   <=> /\ StrictlyBetween(ProjectionOf(corners[k])[1], meas.camera.imageWidth)
                       /\ StrictlyBetween(ProjectionOf(corners[k])[2], meas.camera.imageHeight)

\* some corners are kept, some dropped, one of them exactly on the border
C6_Witness ==
    /\ meas.made
    /\ Len(meas.model.rows) > 1
    /\ Len(meas.model.rows) < Len(board.cornerPositions.rows)
    /\ \E k \in 1..Len(board.cornerPositions.rows) :
          LET u == ProjectionOf(board.cornerPositions.rows[k])[1]
          IN  u.k = "fin" /\ u.num = meas.camera.imageWidth * u.den

\* ------------------------------------------------ claims on the drawing
\* C10: drawCross only writes pixels with row in [0, h-1] and column in
\* [0, w-1], never indexing outside the image, also for points within
\* length//2 of the right or bottom edge; it leaves the image unchanged when
\* the rounded point does not satisfy 0 < u < w and 0 < v < h.
C10_DrawCrossStaysInside ==
    draw.made =>
        /\ draw.raised = "none"
        /\ \A rc \in draw.indexed :
              /\ 0 <= rc[1] /\ rc[1] <= image.h - 1
              /\ 0 <= rc[2] /\ rc[2] <= image.w - 1
        /\ ~(/\ 0 < rint(draw.point[1]) /\ rint(draw.point[1]) < image.w
             /\ 0 < rint(draw.point[2]) /\ rint(draw.point[2]) < image.h)
              => image = draw.before

\* ------------------------------------------------- claims on the solver
SolverStepAsClaimed ==
    solver.status = "running" =>
        /\ (solver'.P # solver.P) <=> (solver'.tried < solver.S)
        /\ (solver'.P # solver.P) =>
               (solver'.S = solver'.tried /\ solver'.lambda < solver.lambda)
        /\ (solver'.P = solver.P) =>
               (solver'.S = solver.S /\ solver'.lambda > solver.lambda)
        /\ solver'.S <= solver.S
        /\ solver'.status = "ConvergenceError" =>
               (solver'.iter >= MaxIterations \/ solver'.lambda > LambdaCap)

\* C8: a tentative update replaces P only when its sum of squares is strictly
\* less than the current one (lambda is then decreased); otherwise P is kept
\* and lambda increased; the accepted sum of squares never increases; the run
\* ends converged or with ConvergenceError once the iteration count or the
\* lambda cap is exceeded.
C8_DampedIteration ==
    /\ [][SolverStepAsClaimed]_solver
    /\ (solver.status = "running") ~> (solver.status \in {"converged", "ConvergenceError"})

C8_Witness ==
    /\ solver.status = "ConvergenceError"
    /\ solver.accepted > 1
    /\ solver.rejected > 1

====
